---- MODULE Spec2Model ----
(***************************************************************************)
(* Model of the AI Gym Trainer backend (src/main.py): the CRUD endpoints   *)
(* over the users / profiles / progress tables, the macro calculator, the  *)
(* keyword fallback advice generator and the chat endpoint with its LLM    *)
(* response validation.                                                    *)
(*                                                                         *)
(* Numbers.  Weights and macro grams are Python floats.  They are carried  *)
(* here as integers counting hundredths (80.25 kg is 8025, 160.5 g is      *)
(* 16050).  The weights used are multiples of 0.25 or of 0.1: for those    *)
(* every tie that round() meets is exactly representable in binary, so     *)
(* Python's round-half-to-even is what decides it.                         *)
(*                                                                         *)
(* Text.  A user message is a sequence of characters.  The LLM text is a   *)
(* sequence of tokens (whitespace, code fences, braces, key/value pairs,   *)
(* prose), fine enough for strip(), replace() of the fences, startswith()  *)
(* and json.loads() to be modelled by what they do to the text.            *)
(*                                                                         *)
(* Concurrency.  Every endpoint is one action.  chat, which blocks on the  *)
(* store and on the LLM, is modelled a second time in steps, with the      *)
(* locals of each request in flight in requests.                           *)
(*                                                                         *)
(* UI.  The Streamlit client of src/app.py is one action per run of the    *)
(* script; of st.session_state only the key "user" is kept, in session.    *)
(***************************************************************************)
EXTENDS Integers, Sequences, FiniteSets, TLC

VARIABLES
    users,        \* rows of table "users": [id, email, username, password]
    profiles,     \* rows of table "profiles", at most one per user_id
    progress,     \* rows of table "progress", in insertion order
    lastCreated,  \* history: user_id -> body of the last accepted profile/create
    resp,         \* the last request served and its HTTP response
    session,      \* UI client: {st.session_state["user"]}, {} when not set
    ui_event,     \* UI client: what the last run of the script did
    requests      \* chat requests being served: request id -> its locals

vars == <<users, profiles, progress, lastCreated, resp, session, ui_event,
          requests>>

(***************************** bounds **************************************)
MaxUsers == 2          \* rows of table "users"
MaxProgress == 2       \* rows of table "progress"
MinWeight == 7900      \* weights fed to the macro calculator on its own,
MaxWeight == 8400      \*   in hundredths of a kilogram

UserIds == {1, 2}      \* the user ids that requests name
Emails == {"a@x.io", "b@x.io"}
Passwords == {"pw1", "pw2"}
Usernames == {"alice"}
Dates == {1, 2, 3}     \* the timestamps today() returns

None == [none |-> TRUE]

(************************ Python round() ***********************************)
\* x rounded to the nearest multiple of unit, a tie going to the even multiple
RoundHalfEven(x, unit) ==
    LET r == x % unit
        lo == x - r
    IN  IF 2 * r < unit THEN lo
        ELSE IF 2 * r > unit THEN lo + unit
        ELSE IF (lo \div unit) % 2 = 0 THEN lo ELSE lo + unit

\* round(x, 1): x in hundredths, result in hundredths (a multiple of 10)
round1(x) == RoundHalfEven(x, 10)

\* round(x): x in hundredths, result a whole number
round0(x) == RoundHalfEven(x, 100) \div 100

\* round(weight*2.2): weight in hundredths, the product in thousandths
round0_22(weight) == RoundHalfEven(weight * 22, 1000) \div 1000

(************************ Macro Calculator *********************************)
\* calculate_macros with the protein and carbs factors exchanged
calculate_macros_swapped(weight_kg) ==
    [protein |-> round1(weight_kg * 3),
     carbs   |-> round1(weight_kg * 2),
     fats    |-> round1(weight_kg * 1)]

calculate_macros(weight_kg) ==
    [protein |-> round1(weight_kg * 2),
     carbs   |-> round1(weight_kg * 3),
     fats    |-> round1(weight_kg * 1)]

\* weights the calculator is exercised on: multiples of 0.25 and of 0.1
WeightDomain ==
    {w \in MinWeight..MaxWeight : w % 25 = 0 \/ w % 10 = 0}

(************************ JSON values **************************************)
\* a JSON string, a string with values formatted into it, a number, a list
\* of strings, an object
Str(s) == [str |-> s]
FStr(s, sargs, nargs) == [fstr |-> s, sargs |-> sargs, nargs |-> nargs]
Num(n) == [num |-> n]
List(l) == [list |-> l]
Obj(o) == [obj |-> o]

required_fields ==
    <<"response", "advice", "workout_plan", "nutrition_tips", "macros">>

RequiredKeys == {required_fields[i] : i \in 1..Len(required_fields)}

(************************ user messages ************************************)
Upper ==
    <<"A", "B", "C", "D", "E", "F", "G", "H", "I", "J", "K", "L", "M",
      "N", "O", "P", "Q", "R", "S", "T", "U", "V", "W", "X", "Y", "Z">>

LowerCase ==
    <<"a", "b", "c", "d", "e", "f", "g", "h", "i", "j", "k", "l", "m",
      "n", "o", "p", "q", "r", "s", "t", "u", "v", "w", "x", "y", "z">>

\* str.lower() on one character, then on a message
lower_char(c) ==
    IF \E i \in 1..Len(Upper) : Upper[i] = c
    THEN LowerCase[CHOOSE i \in 1..Len(Upper) : Upper[i] = c]
    ELSE c

lower(s) == [i \in 1..Len(s) |-> lower_char(s[i])]

\* word in s
contains(s, word) ==
    \E i \in 0..(Len(s) - Len(word)) :
        \A j \in 1..Len(word) : s[i + j] = word[j]

\* any(word in s for word in words)
any_word(s, words) == \E word \in words : contains(s, word)

\* "I want to lose weight and build muscle"
MsgLoseMuscle ==
    <<"I", " ", "w", "a", "n", "t", " ", "t", "o", " ", "l", "o", "s", "e", " ", "w", "e", "i", "g", "h", "t", " ", "a", "n", "d", " ", "b", "u", "i", "l", "d", " ", "m", "u", "s", "c", "l", "e">>

\* "best gym workout"
MsgGymWorkout ==
    <<"b", "e", "s", "t", " ", "g", "y", "m", " ", "w", "o", "r", "k", "o", "u", "t">>

\* "Best GYM Workout"
MsgGymUpper ==
    <<"B", "e", "s", "t", " ", "G", "Y", "M", " ", "W", "o", "r", "k", "o", "u", "t">>

\* "What to eat to gain size"
MsgEatGain ==
    <<"W", "h", "a", "t", " ", "t", "o", " ", "e", "a", "t", " ", "t", "o", " ", "g", "a", "i", "n", " ", "s", "i", "z", "e">>

\* "hello"
MsgHello ==
    <<"h", "e", "l", "l", "o">>

\* "How to BULK"
MsgBulk ==
    <<"H", "o", "w", " ", "t", "o", " ", "B", "U", "L", "K">>

\* "Fat Loss diet"
MsgFatLossDiet ==
    <<"F", "a", "t", " ", "L", "o", "s", "s", " ", "d", "i", "e", "t">>

\* "fat loss at the gym"
MsgFatLossGym ==
    <<"f", "a", "t", " ", "l", "o", "s", "s", " ", "a", "t", " ", "t", "h", "e", " ", "g", "y", "m">>

\* "Great"
MsgGreat ==
    <<"G", "r", "e", "a", "t">>

\* "Weight Loss"
MsgWeightLoss ==
    <<"W", "e", "i", "g", "h", "t", " ", "L", "o", "s", "s">>

\* ""
MsgEmpty ==
    <<>>

\* "lose  weight"
MsgLoseTwoSpaces ==
    <<"l", "o", "s", "e", " ", " ", "w", "e", "i", "g", "h", "t">>

Messages ==
    {MsgLoseMuscle,
     MsgGymWorkout,
     MsgGymUpper,
     MsgEatGain,
     MsgHello,
     MsgBulk,
     MsgFatLossDiet,
     MsgFatLossGym,
     MsgGreat,
     MsgWeightLoss,
     MsgEmpty,
     MsgLoseTwoSpaces}

WorkoutWords ==
    {<<"w", "o", "r", "k", "o", "u", "t">>,
     <<"e", "x", "e", "r", "c", "i", "s", "e">>,
     <<"t", "r", "a", "i", "n">>,
     <<"g", "y", "m">>}

DietWords ==
    {<<"d", "i", "e", "t">>,
     <<"f", "o", "o", "d">>,
     <<"n", "u", "t", "r", "i", "t", "i", "o", "n">>,
     <<"e", "a", "t">>}

LossWords ==
    {<<"w", "e", "i", "g", "h", "t", " ", "l", "o", "s", "s">>,
     <<"f", "a", "t", " ", "l", "o", "s", "s">>,
     <<"l", "o", "s", "e", " ", "w", "e", "i", "g", "h", "t">>}

GainWords ==
    {<<"m", "u", "s", "c", "l", "e">>,
     <<"g", "a", "i", "n">>,
     <<"b", "u", "l", "k">>,
     <<"s", "i", "z", "e">>}

(************************ Fallback Advice Generator ************************)
DefaultWeight == 7000

DefaultGoal == "General Fitness"

StrengthPlan ==
    <<"Monday: Upper Body - Bench Press 3x8-10, Rows 3x8-10, Shoulder Press 3x10-12",
      "Tuesday: Lower Body - Squats 3x8-10, Deadlifts 3x5-8, Lunges 3x12",
      "Wednesday: Rest or Active Recovery",
      "Thursday: Upper Body - Pull-ups 3xAMRAP, Dips 3x10-12, Bicep Curls 3x12",
      "Friday: Lower Body - Leg Press 4x12, Leg Curls 4x12, Calf Raises 4x15",
      "Weekend: Cardio and Mobility">>

NutritionPlan ==
    <<"Combine proper nutrition with consistent training for best results">>

CuttingPlan ==
    <<"Monday: HIIT Cardio - 30min interval training",
      "Tuesday: Strength Training - Full body compound exercises",
      "Wednesday: Steady State Cardio - 45min moderate pace",
      "Thursday: Strength Training - Different exercises from Tuesday",
      "Friday: Active Recovery - Walking, stretching, mobility",
      "Weekend: Rest or light activity">>

BulkingPlan ==
    <<"Monday: Chest & Triceps - Heavy pressing movements",
      "Tuesday: Back & Biceps - Pulling movements",
      "Wednesday: Legs & Core - Squats, deadlifts, accessories",
      "Thursday: Shoulders & Arms - Overhead press and isolation",
      "Friday: Weak Points - Address lagging muscle groups",
      "Weekend: Rest and recovery">>

GenericPlan ==
    <<"Monday: Strength Training - Compound exercises 3-4 sets",
      "Tuesday: Cardiovascular Training - 30-45 minutes",
      "Wednesday: Active Recovery - Mobility and flexibility",
      "Thursday: Hypertrophy Training - 8-12 rep range",
      "Friday: Full Body Metabolic Conditioning",
      "Weekend: Rest or recreational activities">>

StrengthTemplate(weight, goal) ==
    [response |-> Str("Here's a balanced workout plan for your fitness goals"),
     advice |-> Str("Focus on compound exercises with proper form. Progressive overload is key for continuous improvement."),
     workout_plan |-> List(StrengthPlan),
     nutrition_tips |->
        FStr("Eat {}g protein daily. Time carbs around workouts. Stay hydrated with 3-4L water.",
             <<>>, <<round0(weight * 2)>>)]

NutritionTemplate(weight, goal) ==
    [response |-> Str("Nutrition advice for your fitness journey"),
     advice |-> Str("Focus on whole foods, adequate protein, and proper meal timing around workouts."),
     workout_plan |-> List(NutritionPlan),
     nutrition_tips |->
        FStr("For {}: - Protein: {}g daily from chicken, fish, eggs, dairy - Carbs: {}g from rice, potatoes, oats, fruits - Fats: {}g from nuts, avocado, olive oil - Meal frequency: 4-6 meals daily - Hydration: 3-4 liters water minimum",
             <<goal>>,
             <<round0(weight * 2), round0(weight * 3), round0(weight * 1)>>)]

CuttingTemplate(weight, goal) ==
    [response |-> Str("Weight loss strategy with sustainable approach"),
     advice |-> Str("Create a moderate calorie deficit through diet and exercise. Focus on protein to preserve muscle."),
     workout_plan |-> List(CuttingPlan),
     nutrition_tips |->
        FStr("Create 500-calorie deficit daily. Eat {}g protein. Focus on fiber-rich foods for satiety.",
             <<>>, <<round0(weight * 2)>>)]

BulkingTemplate(weight, goal) ==
    [response |-> Str("Muscle building program with progressive overload"),
     advice |-> Str("Focus on compound lifts with progressive overload. Ensure calorie surplus with adequate protein."),
     workout_plan |-> List(BulkingPlan),
     nutrition_tips |->
        FStr("Eat 300-500 calorie surplus. Protein: {}g daily. Carbs around workouts for energy.",
             <<>>, <<round0_22(weight)>>)]

GenericTemplate(weight, goal) ==
    [response |-> Str("Comprehensive fitness guidance"),
     advice |-> Str("Consistency in training and nutrition is the foundation of success. Focus on progressive improvement."),
     workout_plan |-> List(GenericPlan),
     nutrition_tips |->
        FStr("Balanced macronutrients: Protein {}g, Carbs {}g, Fats {}g daily",
             <<>>,
             <<round0(weight * 2), round0(weight * 3), round0(weight * 1)>>)]

\* the chain with the muscle-gain test moved ahead of the weight-loss test
select_template_gain_first(user_lower, weight, goal) ==
    IF any_word(user_lower, WorkoutWords) THEN StrengthTemplate(weight, goal)
    ELSE IF any_word(user_lower, DietWords) THEN NutritionTemplate(weight, goal)
    ELSE IF any_word(user_lower, GainWords) THEN BulkingTemplate(weight, goal)
    ELSE IF any_word(user_lower, LossWords) THEN CuttingTemplate(weight, goal)
    ELSE GenericTemplate(weight, goal)

\* the if / elif chain over the lower-cased message
select_template(user_lower, weight, goal) ==
    IF any_word(user_lower, WorkoutWords) THEN StrengthTemplate(weight, goal)
    ELSE IF any_word(user_lower, DietWords) THEN NutritionTemplate(weight, goal)
    ELSE IF any_word(user_lower, LossWords) THEN CuttingTemplate(weight, goal)
    ELSE IF any_word(user_lower, GainWords) THEN BulkingTemplate(weight, goal)
    ELSE GenericTemplate(weight, goal)

\* create_fallback_response computing the macros from the default weight
\* whatever the profile
create_fallback_response_default_weight(profile, user_message) ==
    LET weight == IF profile # None THEN profile.weight_kg ELSE DefaultWeight
        goal == IF profile # None THEN profile.goal ELSE DefaultGoal
        t == select_template(lower(user_message), weight, goal)
    IN  [response |-> t.response,
         advice |-> t.advice,
         workout_plan |-> t.workout_plan,
         nutrition_tips |-> t.nutrition_tips,
         macros |-> Obj(calculate_macros(DefaultWeight))]

create_fallback_response(profile, user_message) ==
    LET weight == IF profile # None THEN profile.weight_kg ELSE DefaultWeight
        goal == IF profile # None THEN profile.goal ELSE DefaultGoal
        t == select_template(lower(user_message), weight, goal)
    IN  [response |-> t.response,
         advice |-> t.advice,
         workout_plan |-> t.workout_plan,
         nutrition_tips |-> t.nutrition_tips,
         macros |-> Obj(calculate_macros(weight))]

\* the payload chat returns when the user has no profile
ProfileIncomplete ==
    [response |-> Str("Please complete your profile first to receive personalized fitness advice."),
     advice |-> Str("Your profile helps me understand your age, fitness level, goals, and body composition to provide customized plans."),
     workout_plan |-> List(<<"Complete profile setup to unlock personalized training program">>),
     nutrition_tips |-> Str("Profile information is essential for creating diet plans based on your metabolic needs"),
     macros |-> Obj([protein |-> 0, carbs |-> 0, fats |-> 0])]

(************************ profiles sent by clients *************************)
ProfileBodies ==
    {[age |-> 25, height_cm |-> 18000, weight_kg |-> 8000, sex |-> "Male",
      activity_level |-> "Moderate", goal |-> "Gain Muscle"],
     [age |-> 41, height_cm |-> 16250, weight_kg |-> 8025, sex |-> "Female",
      activity_level |-> "Active", goal |-> "Lose Weight"],
     [age |-> 33, height_cm |-> 17500, weight_kg |-> 6450, sex |-> "Other",
      activity_level |-> "Sedentary", goal |-> "Maintain Weight"]}

Row(user_id, body) ==
    [user_id |-> user_id, age |-> body.age, height_cm |-> body.height_cm,
     weight_kg |-> body.weight_kg, sex |-> body.sex,
     activity_level |-> body.activity_level, goal |-> body.goal]

\* every profile create_fallback_response can be handed
FallbackProfiles ==
    {Row(u, b) : u \in UserIds, b \in ProfileBodies} \cup {None}

\* create_fallback_response tabulated over the inputs of the model, so that
\* a handler looks its result up instead of scanning the message again
fallback_table ==
    [p \in FallbackProfiles, m \in Messages |-> create_fallback_response(p, m)]

fallback(profile, user_message) == fallback_table[profile, user_message]

(************************ LLM text *****************************************)
WS == [t |-> "ws"]
FenceJson == [t |-> "fence_json"]
Fence == [t |-> "fence"]
LBrace == [t |-> "{"]
RBrace == [t |-> "}"]
Prose == [t |-> "prose"]
Pair(k, v) == [t |-> "pair", k |-> k, v |-> v]

\* str.strip()
RECURSIVE lstrip(_)
lstrip(s) == IF s # <<>> /\ Head(s) = WS THEN lstrip(Tail(s)) ELSE s

RECURSIVE rstrip(_)
rstrip(s) ==
    IF s # <<>> /\ s[Len(s)] = WS THEN rstrip(SubSeq(s, 1, Len(s) - 1)) ELSE s

strip(s) == rstrip(lstrip(s))

\* str.replace(old, empty string)
remove(s, old) == SelectSeq(s, LAMBDA tok : tok # old)

\* line 199: both fence markers replaced by nothing, then strip()
clean(answer) == strip(remove(remove(answer, FenceJson), Fence))

startswith_brace(s) == s # <<>> /\ Head(s) = LBrace

\* json.loads(s) succeeds on an object: brace, members, brace, nothing else
is_json_object(s) ==
    /\ Len(s) >= 2
    /\ s[1] = LBrace
    /\ s[Len(s)] = RBrace
    /\ \A i \in 2..(Len(s) - 1) : s[i].t \in {"pair", "ws"}

\* json.loads(s): the object's members, the last of a repeated key winning
json_loads(s) ==
    LET idx == {i \in 1..Len(s) : s[i].t = "pair"}
        last(k) == CHOOSE i \in idx :
                      /\ s[i].k = k
                      /\ \A j \in idx : s[j].k = k => j <= i
    IN  [k \in {s[i].k : i \in idx} |-> s[last(k)].v]

\* the check with any() in place of all()
has_required_fields_any(parsed_response) ==
    \E i \in 1..Len(required_fields) :
        required_fields[i] \in DOMAIN parsed_response

\* all(field in parsed_response for field in required_fields)
has_required_fields(parsed_response) ==
    \A i \in 1..Len(required_fields) :
        required_fields[i] \in DOMAIN parsed_response

(************************ what the LLM may answer **************************)
GoodMembers ==
    <<Pair("response", Str("r")),
      Pair("advice", Str("a")),
      Pair("workout_plan", List(<<"x">>)),
      Pair("nutrition_tips", Str("n")),
      Pair("macros", Obj([protein |-> 100, carbs |-> 200, fats |-> 300]))>>

Without(k) == SelectSeq(GoodMembers, LAMBDA m : m.k # k)

TextGood == <<LBrace>> \o GoodMembers \o <<RBrace>>

\* key-complete, but workout_plan is a string and macros is a number
TextWrongShape ==
    <<LBrace,
      Pair("response", Str("r")),
      Pair("advice", List(<<"a">>)),
      Pair("workout_plan", Str("no list")),
      Pair("nutrition_tips", Num(5)),
      Pair("macros", Num(0)),
      RBrace>>

LLMTexts ==
    {TextGood,
     <<FenceJson, WS>> \o TextGood \o <<WS, Fence>>,
     <<WS>> \o TextGood \o <<WS>>,
     <<LBrace>> \o GoodMembers \o <<Pair("note", Str("extra"))>> \o <<RBrace>>,
     <<LBrace, Pair("response", Str("old"))>> \o GoodMembers \o <<RBrace>>,
     TextWrongShape,
     <<>>,
     <<WS, WS>>,
     <<FenceJson, Fence>>,
     <<Prose>> \o TextGood,
     TextGood \o <<Prose>>,
     <<LBrace>> \o GoodMembers,
     <<LBrace, Prose, RBrace>>,
     <<LBrace, RBrace>>}
    \cup {<<LBrace>> \o Without(required_fields[i]) \o <<RBrace>> :
             i \in 1..Len(required_fields)}

\* generate_content raises, returns a response without text, or returns text
LLMOutcomes ==
    {[kind |-> "raise"], [kind |-> "no_text"]}
    \cup {[kind |-> "text", text |-> x] : x \in LLMTexts}

NoCall == [kind |-> "not_called"]

(************************ chat *********************************************)
\* validate returning whatever parses, without the check of the keys
validate_skip_key_check(response, profile, message) ==
    IF response.kind = "text" /\ strip(response.text) # <<>>
    THEN LET answer == clean(strip(response.text))
         IN  IF answer # <<>> /\ ~startswith_brace(answer)
             THEN fallback(profile, message)
             ELSE IF is_json_object(answer)
                  THEN json_loads(answer)
                  ELSE fallback(profile, message)
    ELSE fallback(profile, message)

\* validate overwriting the macros of an accepted object by the computed ones
validate_recompute_macros(response, profile, message) ==
    IF response.kind = "text" /\ strip(response.text) # <<>>
    THEN LET answer == clean(strip(response.text))
         IN  IF answer # <<>> /\ ~startswith_brace(answer)
             THEN fallback(profile, message)
             ELSE IF is_json_object(answer)
                  THEN IF has_required_fields(json_loads(answer))
                       THEN [k \in DOMAIN json_loads(answer) |->
                                IF k = "macros"
                                THEN Obj(calculate_macros(profile.weight_kg))
                                ELSE json_loads(answer)[k]]
                       ELSE fallback(profile, message)
                  ELSE fallback(profile, message)
    ELSE fallback(profile, message)

\* lines 196-217: what chat returns once generate_content has returned
validate(response, profile, message) ==
    IF response.kind = "text" /\ strip(response.text) # <<>>
    THEN LET answer == clean(strip(response.text))
         IN  IF answer # <<>> /\ ~startswith_brace(answer)
             THEN fallback(profile, message)
             ELSE IF is_json_object(answer)
                  THEN IF has_required_fields(json_loads(answer))
                       THEN json_loads(answer)
                       ELSE fallback(profile, message)
                  ELSE fallback(profile, message)
    ELSE fallback(profile, message)

\* chat_body answering a failed profile load like a missing profile
chat_body_incomplete_on_raise(load, message, llm) ==
    IF load.kind = "raise"
    THEN ProfileIncomplete
    ELSE IF load.profile = None
         THEN ProfileIncomplete
         ELSE IF llm.kind = "raise"
              THEN fallback(load.profile, message)
              ELSE validate(llm, load.profile, message)

\* chat_body handing no profile to the fallback when the LLM call raises
chat_body_raise_without_profile(load, message, llm) ==
    IF load.kind = "raise"
    THEN fallback(None, message)
    ELSE IF load.profile = None
         THEN ProfileIncomplete
         ELSE IF llm.kind = "raise"
              THEN fallback(None, message)
              ELSE validate(llm, load.profile, message)

\* chat_body sending a user without profile to the keyword templates
chat_body_no_gate(load, message, llm) ==
    IF load.kind = "raise"
    THEN fallback(None, message)
    ELSE IF load.profile = None
         THEN fallback(None, message)
         ELSE IF llm.kind = "raise"
              THEN fallback(load.profile, message)
              ELSE validate(llm, load.profile, message)

\* the body chat returns: load is the outcome of get_profile ("raise", or
\* "ok" with the row or None), llm the outcome of generate_content
chat_body(load, message, llm) ==
    IF load.kind = "raise"
    THEN fallback(None, message)
    ELSE IF load.profile = None
         THEN ProfileIncomplete
         ELSE IF llm.kind = "raise"
              THEN fallback(load.profile, message)
              ELSE validate(llm, load.profile, message)

\* the LLM answer is returned as it parsed: it has text that is not blank,
\* the text without fences is empty or begins with a brace, it parses, and
\* the parsed object has the required fields
accepted(response) ==
    /\ response.kind = "text"
    /\ strip(response.text) # <<>>
    /\ LET answer == clean(strip(response.text))
       IN  /\ answer = <<>> \/ startswith_brace(answer)
           /\ is_json_object(answer)
           /\ has_required_fields(json_loads(answer))

\* chat is a plain def: each request is served by a worker thread of its
\* own, and the requests in flight are told apart by an id
RequestIds == {1, 2}

\* the locals of a request nobody has made yet
NoRequest ==
    [pc |-> "idle", user_id |-> 0, message |-> <<>>, store |-> "none",
     load |-> [kind |-> "none"], llm |-> NoCall, prompts |-> 0,
     llm_calls |-> 0, trail |-> <<>>, outcome |-> "none", body |-> <<>>]

(************************ the store ****************************************)
\* supabase.table("profiles").select("*").eq("user_id", user_id): res.data[0]
\* if there is a row, else None
get_profile(user_id) ==
    IF \E r \in profiles : r.user_id = user_id
    THEN CHOOSE r \in profiles : r.user_id = user_id
    ELSE None

\* an insert that leaves an existing row of the user in place
upsert_keep_existing(table, row) ==
    IF \E r \in table : r.user_id = row.user_id THEN table
    ELSE table \cup {row}

\* an upsert that leaves the new row as the only row of the table
upsert_replace_all(table, row) == {row}

\* upsert on the table's key user_id: the row replaces the user's row
upsert(table, row) ==
    {r \in table : r.user_id # row.user_id} \cup {row}

Init ==
    /\ users = <<>>
    /\ profiles = {}
    /\ progress = <<>>
    /\ lastCreated = [u \in UserIds |-> None]
    /\ resp = [op |-> "none"]
    /\ session = {}
    /\ ui_event = [page |-> "Dashboard", sent |-> "nothing"]
    /\ requests = [r \in RequestIds |-> NoRequest]

(************************ endpoints ****************************************)
\* What execute() does in a handler: it returns the result ("ok"), it
\* raises ("raise"), or it returns a response that carries an error and no
\* data ("error"), the case the handlers test with res.error.  A call that
\* raises or reports an error has written nothing.
StoreOutcomes == {"ok", "error", "raise"}

\* the part of a response that records the request's store call
StoreCall(store) ==
    [store |-> store, store_ok |-> (store = "ok"), store_calls |-> 1]

\* POST /signup
signup(email, username, password, store) ==
    /\ store = "ok" => Len(users) < MaxUsers
    /\ users' = IF store = "ok"
                THEN Append(users, [id |-> Len(users) + 1, email |-> email,
                                    username |-> username, password |-> password])
                ELSE users
    /\ resp' = [op |-> "signup", email |-> email] @@ StoreCall(store) @@
               (IF store = "ok"
                THEN [status |-> 200,
                      body |-> [message |-> "Signup successful!"]]
                ELSE IF store = "error"
                THEN [status |-> 400,
                      body |-> [detail |-> "Signup failed: 400: store error"]]
                ELSE [status |-> 400,
                      body |-> [detail |-> "Signup failed: store exception"]])
    /\ UNCHANGED <<profiles, progress, lastCreated>>

\* login selecting on the email alone
login_email_only(email, password, store) ==
    LET data == IF store = "ok"
                THEN {i \in 1..Len(users) : users[i].email = email}
                ELSE {}
        request == [op |-> "login", email |-> email, password |-> password]
                   @@ StoreCall(store)
    IN  /\ \/ /\ store # "raise"
              /\ data # {}
              /\ \E i \in data :
                    resp' = request @@
                        [status |-> 200,
                         body |-> [user_id |-> users[i].id,
                                   access_token |-> "dummy-token",
                                   message |-> "Login successful!"]]
           \/ /\ store # "raise"
              /\ data = {}
              /\ resp' = request @@
                    [status |-> 401,
                     body |-> [detail |-> "Login failed: 401: Invalid credentials"]]
           \/ /\ store = "raise"
              /\ resp' = request @@
                    [status |-> 401,
                     body |-> [detail |-> "Login failed: store exception"]]
        /\ UNCHANGED <<users, profiles, progress, lastCreated>>

\* POST /login.  res.data is the rows with that email and that password,
\* none when the store reports an error, and res.data[0] one of them (the
\* query has no order).  The handler does not look at res.error.
login(email, password, store) ==
    LET data == IF store = "ok"
                THEN {i \in 1..Len(users) :
                         users[i].email = email /\ users[i].password = password}
                ELSE {}
        request == [op |-> "login", email |-> email, password |-> password]
                   @@ StoreCall(store)
    IN  /\ \/ /\ store # "raise"
              /\ data # {}
              /\ \E i \in data :
                    resp' = request @@
                        [status |-> 200,
                         body |-> [user_id |-> users[i].id,
                                   access_token |-> "dummy-token",
                                   message |-> "Login successful!"]]
           \/ /\ store # "raise"
              /\ data = {}
              /\ resp' = request @@
                    [status |-> 401,
                     body |-> [detail |-> "Login failed: 401: Invalid credentials"]]
           \/ /\ store = "raise"
              /\ resp' = request @@
                    [status |-> 401,
                     body |-> [detail |-> "Login failed: store exception"]]
        /\ UNCHANGED <<users, profiles, progress, lastCreated>>

\* POST /profile/create
create_profile(user_id, body, store) ==
    LET request == [op |-> "profile/create", user_id |-> user_id,
                    profile |-> body] @@ StoreCall(store)
    IN  /\ profiles' = IF store = "ok"
                       THEN upsert(profiles, Row(user_id, body))
                       ELSE profiles
        /\ lastCreated' = IF store = "ok"
                          THEN [lastCreated EXCEPT ![user_id] = body]
                          ELSE lastCreated
        /\ resp' = IF store = "ok"
                   THEN request @@ [status |-> 200,
                                    body |-> [message |-> "Profile saved!"]]
                   ELSE IF store = "error"
                   THEN request @@ [status |-> 400,
                                    body |-> [detail |-> "Profile creation failed: 400: store error"]]
                   ELSE request @@ [status |-> 400,
                                    body |-> [detail |-> "Profile creation failed: store exception"]]
        /\ UNCHANGED <<users, progress>>

\* the outcome of get_profile(user_id) inside a handler: it raises, or it
\* returns res.data[0], or None when res.data is empty.  get_profile does
\* not look at res.error, so a reported error reads as no row.
load_profile(user_id, store) ==
    IF store = "raise" THEN [kind |-> "raise"]
    ELSE IF store = "error" THEN [kind |-> "ok", profile |-> None]
    ELSE [kind |-> "ok", profile |-> get_profile(user_id)]

\* the status and body GET /profile/{user_id} answers with
profile_response(load) ==
    IF load.kind = "raise"
    THEN [status |-> 500,
          body |-> [detail |-> "Error fetching profile: store exception"]]
    ELSE IF load.profile = None
         THEN [status |-> 200, body |-> <<>>]
         ELSE [status |-> 200, body |-> load.profile]

\* GET /profile/{user_id}
get_profile_endpoint(user_id, store) ==
    /\ resp' = [op |-> "profile", user_id |-> user_id] @@ StoreCall(store)
               @@ profile_response(load_profile(user_id, store))
    /\ UNCHANGED <<users, profiles, progress, lastCreated>>

\* the status and body GET /macros/{user_id} answers with.  The
\* HTTPException(404) is raised inside the try block, and the handler of
\* "except Exception" turns every exception into a 500.
macros_response(load) ==
    IF load.kind = "raise"
    THEN [status |-> 500,
          body |-> [detail |-> "Error calculating macros: store exception"]]
    ELSE IF load.profile = None
         THEN [status |-> 500,
               body |-> [detail |-> "Error calculating macros: 404: Profile not found"]]
         ELSE [status |-> 200,
               body |-> calculate_macros(load.profile.weight_kg)]

\* GET /macros/{user_id}
get_macros_endpoint(user_id, store) ==
    /\ resp' = [op |-> "macros", user_id |-> user_id] @@ StoreCall(store)
               @@ macros_response(load_profile(user_id, store))
    /\ UNCHANGED <<users, profiles, progress, lastCreated>>

\* POST /chat.  The prompt is built and the LLM is called, once, only past
\* the return of the profile-incomplete payload, that is when get_profile
\* returned a row; every path ends in a return.
chat(user_id, message, store, llm) ==
    LET load == load_profile(user_id, store)
        called == load.kind = "ok" /\ load.profile # None
    IN  /\ called \/ llm = NoCall
        /\ called => llm # NoCall
        /\ resp' = [op |-> "chat", user_id |-> user_id, message |-> message,
                    load |-> load, llm |-> llm,
                    prompts |-> IF called THEN 1 ELSE 0,
                    llm_calls |-> IF called THEN 1 ELSE 0,
                    status |-> 200,
                    body |-> chat_body(load, message, llm)]
                   @@ StoreCall(store)
        /\ UNCHANGED <<users, profiles, progress, lastCreated>>

ProgressWeights == {7550}

ProgressGoals == {"Lose Weight"}

\* POST /progress/add.  date is what today() returns
add_progress(user_id, weight, goal, date, store) ==
    LET row == [user_id |-> user_id, weight |-> weight, goal |-> goal,
                date |-> date]
    IN  /\ store = "ok" => Len(progress) < MaxProgress
        /\ progress' = IF store = "ok" THEN Append(progress, row) ELSE progress
        /\ resp' = [op |-> "progress/add", user_id |-> user_id, row |-> row]
                   @@ StoreCall(store) @@
                   (IF store = "ok"
                    THEN [status |-> 200,
                          body |-> [message |-> "Progress added successfully!"]]
                    ELSE IF store = "error"
                    THEN [status |-> 400,
                          body |-> [detail |-> "Progress addition failed: 400: store error"]]
                    ELSE [status |-> 400,
                          body |-> [detail |-> "Progress addition failed: store exception"]])
        /\ UNCHANGED <<users, profiles, lastCreated>>

\* the user's rows in the order of insertion, whatever their dates
ordered_by_insertion(user_id, order) ==
    LET idx == {i \in 1..Len(progress) : progress[i].user_id = user_id}
    IN  /\ Len(order) = Cardinality(idx)
        /\ {order[i] : i \in 1..Len(order)} = idx
        /\ \A i, j \in 1..Len(order) : i < j => order[i] < order[j]

\* select("*").eq("user_id", user_id).order("date"): the user's rows by
\* ascending date, rows of equal date in an order the store chooses
ordered_by_date(user_id, order) ==
    LET idx == {i \in 1..Len(progress) : progress[i].user_id = user_id}
    IN  /\ Len(order) = Cardinality(idx)
        /\ {order[i] : i \in 1..Len(order)} = idx
        /\ \A i, j \in 1..Len(order) :
              i < j => progress[order[i]].date <= progress[order[j]].date

\* GET /progress/{user_id}
get_progress(user_id, store) ==
    LET request == [op |-> "progress", user_id |-> user_id] @@ StoreCall(store)
    IN  /\ \/ /\ store = "ok"
              /\ \E order \in UNION {[1..n -> 1..Len(progress)] :
                                       n \in 0..Len(progress)} :
                    /\ ordered_by_date(user_id, order)
                    /\ resp' = request @@
                          [status |-> 200,
                           body |-> [i \in 1..Len(order) |-> progress[order[i]]]]
           \/ /\ store = "error"
              /\ resp' = request @@
                    [status |-> 500,
                     body |-> [detail |-> "Error fetching progress: 400: store error"]]
           \/ /\ store = "raise"
              /\ resp' = request @@
                    [status |-> 500,
                     body |-> [detail |-> "Error fetching progress: store exception"]]
        /\ UNCHANGED <<users, profiles, progress, lastCreated>>

(************************ the helpers on their own *************************)
apply_calculate_macros ==
    /\ \E w \in WeightDomain :
          resp' = [op |-> "calculate_macros", weight_kg |-> w,
                   body |-> calculate_macros(w)]
    /\ UNCHANGED <<users, profiles, progress, lastCreated, session, ui_event,
                 requests>>

apply_create_fallback_response ==
    /\ \E p \in FallbackProfiles, m \in Messages :
          resp' = [op |-> "create_fallback_response", profile |-> p,
                   message |-> m, body |-> create_fallback_response(p, m)]
    /\ UNCHANGED <<users, profiles, progress, lastCreated, session, ui_event,
                 requests>>

(************************ chat, statement by statement *********************)
\* The handler of POST /chat blocks twice: on the select of the profile and
\* on generate_content.  Other requests are served in between, so the
\* handler is also modelled in steps, one per blocking call, with the
\* locals of each request in flight kept in requests[r].  pc is the
\* statement the request stands before, trail the statements it has been
\* at, outcome the return statement it left by.

\* the request leaves by a return statement
returned(q, outcome, body) ==
    [q EXCEPT !.pc = "returned", !.trail = Append(@, "returned"),
              !.outcome = outcome, !.body = body]

\* the request stands before the next statement
goto(q, pc) == [q EXCEPT !.pc = pc, !.trail = Append(@, pc)]

\* a request arrives and chat is entered
chat_begin(r, user_id, message) ==
    /\ requests[r].pc \in {"idle", "returned"}
    /\ requests' = [requests EXCEPT ![r] =
                       [NoRequest EXCEPT !.pc = "load", !.user_id = user_id,
                                         !.message = message,
                                         !.trail = <<"load">>]]
    /\ UNCHANGED <<users, profiles, progress, lastCreated, resp, session,
                   ui_event>>

\* profile = get_profile(chat.user_id), then the return of the
\* profile-incomplete payload, or the outer except when the select raised
chat_load(r, store) ==
    LET q == requests[r]
        load == load_profile(q.user_id, store)
        q1 == [q EXCEPT !.store = store, !.load = load]
    IN  /\ q.pc = "load"
        /\ requests' = [requests EXCEPT ![r] =
              IF load.kind = "raise"
              THEN returned(q1, "fallback", fallback(None, q.message))
              ELSE IF load.profile = None
                   THEN returned(q1, "incomplete", ProfileIncomplete)
                   ELSE goto(q1, "call")]
        /\ UNCHANGED <<users, profiles, progress, lastCreated, resp, session,
                       ui_event>>

\* chat_call asking the LLM again when generate_content raised
chat_call_retrying(r, llm) ==
    LET q == requests[r]
        q1 == [q EXCEPT !.llm = llm, !.prompts = @ + 1, !.llm_calls = @ + 1]
    IN  /\ q.pc = "call"
        /\ requests' = [requests EXCEPT ![r] =
              IF llm.kind = "raise"
              THEN IF q.llm_calls = 0
                   THEN goto(q1, "call")
                   ELSE returned(q1, "fallback",
                                 fallback(q.load.profile, q.message))
              ELSE goto(q1, "validate")]
        /\ UNCHANGED <<users, profiles, progress, lastCreated, resp, session,
                       ui_event>>

\* the prompt is built from the profile and the message, generate_content
\* is called; when it raises, the inner except returns the fallback
chat_call(r, llm) ==
    LET q == requests[r]
        q1 == [q EXCEPT !.llm = llm, !.prompts = @ + 1, !.llm_calls = @ + 1]
    IN  /\ q.pc = "call"
        /\ requests' = [requests EXCEPT ![r] =
              IF llm.kind = "raise"
              THEN returned(q1, "fallback",
                            fallback(q.load.profile, q.message))
              ELSE goto(q1, "validate")]
        /\ UNCHANGED <<users, profiles, progress, lastCreated, resp, session,
                       ui_event>>

\* chat_validate keeping what it returns as a row of table "progress"
chat_validate_storing(r) ==
    LET q == requests[r]
    IN  /\ q.pc = "validate"
        /\ requests' = [requests EXCEPT ![r] =
              returned(q, IF accepted(q.llm) THEN "done" ELSE "fallback",
                       validate(q.llm, q.load.profile, q.message))]
        /\ progress' = IF Len(progress) < MaxProgress
                       THEN Append(progress,
                                   [user_id |-> q.user_id,
                                    weight |-> q.load.profile.weight_kg,
                                    goal |-> q.load.profile.goal, date |-> 1])
                       ELSE progress
        /\ UNCHANGED <<users, profiles, lastCreated, resp, session, ui_event>>

\* the text of the response is cleaned, parsed and checked, and either the
\* parsed object or the fallback is returned
chat_validate(r) ==
    LET q == requests[r]
    IN  /\ q.pc = "validate"
        /\ requests' = [requests EXCEPT ![r] =
              returned(q, IF accepted(q.llm) THEN "done" ELSE "fallback",
                       validate(q.llm, q.load.profile, q.message))]
        /\ UNCHANGED <<users, profiles, progress, lastCreated, resp, session,
                       ui_event>>

(************************ requests made to the API *************************)
\* each request with its inputs drawn from the given sets; a request made to
\* the API directly leaves the UI client as it is
Signup(E, P) ==
    /\ \E e \in E, n \in Usernames, p \in P, store \in StoreOutcomes :
          signup(e, n, p, store)
    /\ UNCHANGED <<session, ui_event, requests>>

Login(E, P) ==
    /\ \E e \in E, p \in P, store \in StoreOutcomes : login(e, p, store)
    /\ UNCHANGED <<session, ui_event, requests>>

CreateProfile(B) ==
    /\ \E u \in UserIds, b \in B, store \in StoreOutcomes :
          create_profile(u, b, store)
    /\ UNCHANGED <<session, ui_event, requests>>

GetProfile ==
    /\ \E u \in UserIds, store \in StoreOutcomes : get_profile_endpoint(u, store)
    /\ UNCHANGED <<session, ui_event, requests>>

GetMacros ==
    /\ \E u \in UserIds, store \in StoreOutcomes : get_macros_endpoint(u, store)
    /\ UNCHANGED <<session, ui_event, requests>>

Chat(M, L) ==
    /\ \E u \in UserIds, m \in M, store \in StoreOutcomes,
          llm \in L \cup {NoCall} :
          chat(u, m, store, llm)
    /\ UNCHANGED <<session, ui_event, requests>>

AddProgress(D) ==
    /\ \E u \in UserIds, w \in ProgressWeights, g \in ProgressGoals, d \in D,
          store \in StoreOutcomes :
          add_progress(u, w, g, d, store)
    /\ UNCHANGED <<session, ui_event, requests>>

GetProgress ==
    /\ \E u \in UserIds, store \in StoreOutcomes : get_progress(u, store)
    /\ UNCHANGED <<session, ui_event, requests>>

(************************ the UI client ************************************)
\* One run of the Streamlit script: the sidebar first, then the page chosen
\* in it.  session is st.session_state restricted to the key "user";
\* ui_event says which page the run rendered and which request it sent.
Pages == {"Dashboard", "Login", "Signup", "Profile", "Chat", "Progress"}

\* the pages whose branch asks for "user" in st.session_state
UserPages == {"Profile", "Chat", "Progress"}

\* Save Progress ends in st.rerun(), or in the history column when the
\* request failed: the history is fetched next either way
RerunPending == ui_event.sent = "progress/add"

\* the Create Account button: POST /signup; the session is not touched
ui_signup(email, username, password, store) ==
    /\ ~RerunPending
    /\ signup(email, username, password, store)
    /\ ui_event' = [page |-> "Signup", sent |-> "signup"]
    /\ UNCHANGED <<session, requests>>

\* the Login button: POST /login, and the id of the answer is kept as the
\* session's user when the status is 200
ui_login(email, password, store) ==
    /\ ~RerunPending
    /\ login(email, password, store)
    /\ session' = IF resp'.status = 200 THEN {resp'.body.user_id} ELSE session
    /\ ui_event' = [page |-> "Login", sent |-> "login"]
    /\ UNCHANGED requests

\* ui_logout leaving the user in the session
ui_logout_keep(page) ==
    /\ ~RerunPending
    /\ session # {}
    /\ session' = session
    /\ ui_event' = [page |-> page, sent |-> "logout"]
    /\ UNCHANGED <<users, profiles, progress, lastCreated, resp, requests>>

\* the Logout button, shown in the sidebar of every page while a user is
\* set: the key is deleted and the script reruns
ui_logout(page) ==
    /\ ~RerunPending
    /\ session # {}
    /\ session' = {}
    /\ ui_event' = [page |-> page, sent |-> "logout"]
    /\ UNCHANGED <<users, profiles, progress, lastCreated, resp, requests>>

\* a run that renders a page and sends nothing: a page without request of
\* its own, the Profile or Chat page with no button pressed, or the
\* please-log-in warning shown for a user page while no user is set
ui_show(page) ==
    /\ ~RerunPending
    /\ \/ page \in Pages \ UserPages
       \/ page \in {"Profile", "Chat"} /\ session # {}
       \/ page \in UserPages /\ session = {}
    /\ ui_event' = [page |-> page, sent |-> "nothing"]
    /\ UNCHANGED <<users, profiles, progress, lastCreated, resp, session,
                   requests>>

\* the Save Profile button of the Profile page
ui_save_profile(body, store) ==
    /\ ~RerunPending
    /\ session # {}
    /\ \E user \in session : create_profile(user, body, store)
    /\ ui_event' = [page |-> "Profile", sent |-> "profile/create"]
    /\ UNCHANGED <<session, requests>>

\* the Get AI Advice button of the Chat page
ui_chat(message, store, llm) ==
    /\ ~RerunPending
    /\ session # {}
    /\ \E user \in session : chat(user, message, store, llm)
    /\ ui_event' = [page |-> "Chat", sent |-> "chat"]
    /\ UNCHANGED <<session, requests>>

\* the Show My Macros button of the Chat page
ui_macros(store) ==
    /\ ~RerunPending
    /\ session # {}
    /\ \E user \in session : get_macros_endpoint(user, store)
    /\ ui_event' = [page |-> "Chat", sent |-> "macros"]
    /\ UNCHANGED <<session, requests>>

\* the Save Progress button of the Progress page
ui_progress_add(weight, goal, date, store) ==
    /\ ~RerunPending
    /\ session # {}
    /\ \E user \in session : add_progress(user, weight, goal, date, store)
    /\ ui_event' = [page |-> "Progress", sent |-> "progress/add"]
    /\ UNCHANGED <<session, requests>>

\* the history column of the Progress page, fetched by every run that
\* renders the page
ui_progress_view(store) ==
    /\ session # {}
    /\ \E user \in session : get_progress(user, store)
    /\ ui_event' = [page |-> "Progress", sent |-> "progress"]
    /\ UNCHANGED <<session, requests>>

(************************ specifications ***********************************)
\* the inputs of the specification of all endpoints together
CoreBodies == {b \in ProfileBodies : b.weight_kg >= 8000}

CoreMessages == {MsgLoseMuscle}

CoreOutcomes == {[kind |-> "raise"], [kind |-> "text", text |-> TextGood]}

Next ==
    \/ Signup(Emails, {"pw1"})
    \/ Login(Emails, Passwords)
    \/ CreateProfile(CoreBodies)
    \/ GetProfile
    \/ GetMacros
    \/ Chat(CoreMessages, CoreOutcomes)
    \/ AddProgress({1})
    \/ GetProgress

Spec == Init /\ [][Next]_vars

\* signup and login, over every email and password
NextAuth == Signup(Emails, Passwords) \/ Login(Emails, Passwords)

SpecAuth == Init /\ [][NextAuth]_vars

\* profiles, macros and chat, over every profile body and LLM outcome
ChatMessages == {MsgLoseMuscle, MsgGymUpper, MsgHello}

NextChat ==
    \/ CreateProfile(ProfileBodies)
    \/ GetMacros
    \/ Chat(ChatMessages, LLMOutcomes)

SpecChat == Init /\ [][NextChat]_vars

\* the pure helpers applied to inputs drawn from bounded sets
NextPure == apply_calculate_macros \/ apply_create_fallback_response

SpecPure == Init /\ [][NextPure]_vars

\* profile/create and GET /profile, over every profile body
NextProfile == CreateProfile(ProfileBodies) \/ GetProfile

SpecProfile == Init /\ [][NextProfile]_vars

\* progress/add and GET /progress, over every timestamp
NextProgress == AddProgress(Dates) \/ GetProgress

SpecProgress == Init /\ [][NextProgress]_vars

\* chat requests served side by side, with profiles saved in between
StepMessages == {MsgLoseMuscle}

StepOutcomes ==
    {[kind |-> "raise"], [kind |-> "text", text |-> TextGood],
     [kind |-> "text", text |-> <<Prose>> \o TextGood]}

ChatBegin == \E r \in RequestIds, u \in UserIds, m \in StepMessages :
                chat_begin(r, u, m)

ChatLoad == \E r \in RequestIds, store \in StoreOutcomes : chat_load(r, store)

ChatCall == \E r \in RequestIds, llm \in StepOutcomes : chat_call(r, llm)

ChatValidate == \E r \in RequestIds : chat_validate(r)

NextChatSteps ==
    \/ CreateProfile(CoreBodies)
    \/ ChatBegin
    \/ ChatLoad
    \/ ChatCall
    \/ ChatValidate

SpecChatSteps == Init /\ [][NextChatSteps]_vars

\* one UI client working against the API
UIBodies == {b \in ProfileBodies : b.weight_kg = 8000}

UIOutcomes == {[kind |-> "raise"], NoCall}

NextUI ==
    \/ \E e \in Emails, n \in Usernames, store \in StoreOutcomes :
          ui_signup(e, n, "pw1", store)
    \/ \E e \in Emails, p \in Passwords, store \in StoreOutcomes :
          ui_login(e, p, store)
    \/ \E page \in Pages : ui_logout(page)
    \/ \E page \in Pages : ui_show(page)
    \/ \E b \in UIBodies, store \in StoreOutcomes : ui_save_profile(b, store)
    \/ \E m \in CoreMessages, store \in StoreOutcomes, llm \in UIOutcomes :
          ui_chat(m, store, llm)
    \/ \E store \in StoreOutcomes : ui_macros(store)
    \/ \E w \in ProgressWeights, g \in ProgressGoals, store \in StoreOutcomes :
          ui_progress_add(w, g, 1, store)
    \/ \E store \in StoreOutcomes : ui_progress_view(store)

SpecUI == Init /\ [][NextUI]_vars

(************************ properties ***************************************)
\* the response just produced is a chat response
IsChat == resp.op = "chat"

\* the chat request found a stored profile and so called the LLM
ChatWithProfile ==
    /\ IsChat
    /\ resp.store_ok
    /\ get_profile(resp.user_id) # None

\* the LLM text of the chat request as the validator sees it, once the
\* fence markers and the surrounding whitespace are removed
Cleaned == clean(resp.llm.text)

\* r is x rounded to one decimal: a multiple of 0.1 at most 0.05 away, the
\* even one of the two when both are 0.05 away
IsRound1(x, r) ==
    /\ r % 10 = 0
    /\ r - x <= 5
    /\ x - r <= 5
    /\ (r - x = 5 \/ x - r = 5) => (r \div 10) % 2 = 0

\* C1: whatever the profile load (row, no row, store raises) and the LLM
\* call (raises, no text, empty text, prose, broken JSON, JSON lacking keys,
\* complete JSON) did, chat answers with status 200 and a payload holding
\* the five keys response, advice, workout_plan, nutrition_tips and macros.
C1_ChatPayloadComplete ==
    IsChat =>
        /\ resp.status = 200
        /\ \A k \in {"response", "advice", "workout_plan", "nutrition_tips",
                      "macros"} : k \in DOMAIN resp.body

\* C1 witness: the LLM answered with an object that parses and lacks a
\* required key, and chat answered.
C1_Witness ==
    /\ ChatWithProfile
    /\ resp.llm.kind = "text"
    /\ is_json_object(Cleaned)
    /\ "macros" \notin DOMAIN json_loads(Cleaned)
    /\ "macros" \in DOMAIN resp.body

\* C2 (as claimed): GET /macros/{user_id} for a user without a stored
\* profile answers with status 404.
C2_MacrosNoProfileIs404 ==
    (/\ resp.op = "macros"
     /\ resp.store_ok
     /\ get_profile(resp.user_id) = None) => resp.status = 404

\* the five keyword templates of the fallback generator
KeywordTemplates ==
    {StrengthTemplate(DefaultWeight, DefaultGoal),
     NutritionTemplate(DefaultWeight, DefaultGoal),
     CuttingTemplate(DefaultWeight, DefaultGoal),
     BulkingTemplate(DefaultWeight, DefaultGoal),
     GenericTemplate(DefaultWeight, DefaultGoal)}

\* C3: a chat request for a user without a stored profile gets, whatever
\* the message, the profile-incomplete payload: macros 0/0/0, and a
\* response, advice and workout_plan that are those of no keyword template.
C3_NoProfilePayload ==
    (/\ IsChat
     /\ resp.store_ok
     /\ get_profile(resp.user_id) = None) =>
        /\ resp.body.macros = Obj([protein |-> 0, carbs |-> 0, fats |-> 0])
        /\ resp.body.response =
              Str("Please complete your profile first to receive personalized fitness advice.")
        /\ \A t \in KeywordTemplates :
              /\ resp.body.response # t.response
              /\ resp.body.advice # t.advice
              /\ resp.body.workout_plan # t.workout_plan

\* C3 witness: a user without profile asked about the gym, a message that
\* the keyword templates would answer with the strength-training plan.
C3_Witness ==
    /\ IsChat
    /\ resp.store_ok
    /\ get_profile(resp.user_id) = None
    /\ any_word(lower(resp.message), WorkoutWords)

\* C4 (as claimed): GET /macros/{u} returns exactly 2w, 3w and w for the
\* weight w of the last accepted profile/create of u.
C4_MacrosExactMultiples ==
    (resp.op = "macros" /\ resp.status = 200) =>
        resp.body = [protein |-> 2 * lastCreated[resp.user_id].weight_kg,
                     carbs |-> 3 * lastCreated[resp.user_id].weight_kg,
                     fats |-> lastCreated[resp.user_id].weight_kg]

\* C4 (amended): after any sequence of requests, GET /macros/{u} for a user
\* with a stored profile, the store answering, returns 2w, 3w and w each
\* rounded to one decimal, w being the weight of the last accepted
\* profile/create of u; these are 2w, 3w and w themselves when w has at most
\* one decimal.  Nothing else (progress rows, users, the request) enters.
C4_MacrosFromLastCreate ==
    (/\ resp.op = "macros"
     /\ resp.store_ok
     /\ lastCreated[resp.user_id] # None) =>
        LET w == lastCreated[resp.user_id].weight_kg
        IN  /\ resp.status = 200
            /\ DOMAIN resp.body = {"protein", "carbs", "fats"}
            /\ IsRound1(2 * w, resp.body.protein)
            /\ IsRound1(3 * w, resp.body.carbs)
            /\ IsRound1(w, resp.body.fats)
            /\ w % 10 = 0 =>
                  resp.body = [protein |-> 2 * w, carbs |-> 3 * w, fats |-> w]

\* C4 witness: macros served for a user whose last accepted profile weighs
\* 80.25 kg, with a user signed up and a progress row of another weight
\* stored for the same user.
C4_Witness ==
    /\ resp.op = "macros"
    /\ resp.status = 200
    /\ lastCreated[resp.user_id] # None
    /\ lastCreated[resp.user_id].weight_kg = 8025
    /\ users # <<>>
    /\ \E i \in 1..Len(progress) :
          /\ progress[i].user_id = resp.user_id
          /\ progress[i].weight # 8025

\* C5: for every weight w > 0 calculate_macros returns the three keys
\* protein, carbs and fats, holding 2w, 3w and w rounded to one decimal; for
\* a weight of at most one decimal, carbs = 3 * fats and protein = 2 * fats.
C5_MacroCalculator ==
    resp.op = "calculate_macros" =>
        LET w == resp.weight_kg
        IN  /\ w > 0
            /\ DOMAIN resp.body = {"protein", "carbs", "fats"}
            /\ IsRound1(2 * w, resp.body.protein)
            /\ IsRound1(3 * w, resp.body.carbs)
            /\ IsRound1(w, resp.body.fats)
            /\ w % 10 = 0 =>
                  /\ resp.body.carbs = 3 * resp.body.fats
                  /\ resp.body.protein = 2 * resp.body.fats

\* C5 witness: a weight with two decimals, whose carbs and fats meet a tie
\* of the rounding (80.25 kg: 240.75 and 80.25).
C5_Witness ==
    /\ resp.op = "calculate_macros"
    /\ resp.weight_kg % 50 = 25
    /\ resp.body.fats # resp.weight_kg
    /\ resp.body.carbs # 3 * resp.weight_kg

\* the response just produced is a result of create_fallback_response
IsFallbackCall == resp.op = "create_fallback_response"

\* C6: for every profile (or none) and message, create_fallback_response
\* returns exactly the five keys, a workout_plan that is a list of 1 to 6
\* entries, and the macros calculate_macros gives for the profile's weight,
\* or for 70 kg without profile, whichever template was selected.
C6_FallbackTotal ==
    IsFallbackCall =>
        LET weight == IF resp.profile = None THEN 7000
                      ELSE resp.profile.weight_kg
        IN  /\ DOMAIN resp.body = {"response", "advice", "workout_plan",
                                   "nutrition_tips", "macros"}
            /\ DOMAIN resp.body.workout_plan = {"list"}
            /\ Len(resp.body.workout_plan.list) \in 1..6
            /\ resp.body.macros = Obj(calculate_macros(weight))
            /\ resp.profile = None =>
                  resp.body.macros =
                      Obj([protein |-> 14000, carbs |-> 21000, fats |-> 7000])

\* C6 witness: a profile was given and the template selected is the one
\* with a plan of a single entry.
C6_Witness ==
    /\ IsFallbackCall
    /\ resp.profile # None
    /\ resp.profile.weight_kg # 7000
    /\ Len(resp.body.workout_plan.list) = 1

\* the number of the first keyword set that has a word in the message, in
\* the order workout (1), diet (2), weight loss (3), muscle gain (4); 5 when
\* none has
FirstMatch(user_lower) ==
    LET sets == <<WorkoutWords, DietWords, LossWords, GainWords>>
        hits == {i \in 1..4 : any_word(user_lower, sets[i])}
    IN  IF hits = {} THEN 5
        ELSE CHOOSE i \in hits : \A j \in hits : i <= j

\* the response line of the template of each number
ResponseOf ==
    <<Str("Here's a balanced workout plan for your fitness goals"),
      Str("Nutrition advice for your fitness journey"),
      Str("Weight loss strategy with sustainable approach"),
      Str("Muscle building program with progressive overload"),
      Str("Comprehensive fitness guidance")>>

\* C7: create_fallback_response answers with the template of the first
\* keyword set, in the fixed order, that has a word in the lower-cased
\* message, and with the generic template when none has; "I want to lose
\* weight and build muscle" gets the cutting template, "best gym workout"
\* and "Best GYM Workout" the strength-training template.
C7_FirstMatchWins ==
    IsFallbackCall =>
        /\ resp.body.response = ResponseOf[FirstMatch(lower(resp.message))]
        /\ resp.message = MsgLoseMuscle =>
              /\ resp.body.response = ResponseOf[3]
              /\ resp.body.workout_plan = List(CuttingPlan)
        /\ resp.message \in {MsgGymWorkout, MsgGymUpper} =>
              /\ resp.body.response = ResponseOf[1]
              /\ resp.body.workout_plan = List(StrengthPlan)

\* C7 witness: the message that matches both the weight-loss set and the
\* muscle-gain set got the cutting template.
C7_Witness ==
    /\ IsFallbackCall
    /\ resp.message = MsgLoseMuscle
    /\ any_word(lower(resp.message), LossWords)
    /\ any_word(lower(resp.message), GainWords)
    /\ resp.body.response = ResponseOf[3]

\* the LLM text of the chat request parses as an object
LLMObjectParsed ==
    /\ ChatWithProfile
    /\ resp.llm.kind = "text"
    /\ startswith_brace(Cleaned)
    /\ is_json_object(Cleaned)

\* C8: in a chat request with a stored profile, when the LLM text parses as
\* an object that lacks one of the five required keys, chat returns what
\* create_fallback_response gives for the profile and the message, and no
\* member of the LLM object is in it.
C8_PartialObjectRejected ==
    (/\ LLMObjectParsed
     /\ \E k \in RequiredKeys : k \notin DOMAIN json_loads(Cleaned)) =>
        /\ resp.body =
              create_fallback_response(get_profile(resp.user_id), resp.message)
        /\ resp.body # json_loads(Cleaned)
        /\ \A k \in DOMAIN json_loads(Cleaned) :
              k \in DOMAIN resp.body => resp.body[k] # json_loads(Cleaned)[k]

\* C8 witness: the LLM object has every required key but workout_plan.
C8_Witness ==
    /\ LLMObjectParsed
    /\ DOMAIN json_loads(Cleaned) = RequiredKeys \ {"workout_plan"}

\* C9: in a chat request with a stored profile, when the LLM text, fences
\* and surrounding whitespace removed, begins with a brace, parses and has
\* the five required keys, chat returns the parsed object itself: the same
\* keys, extra ones included, each with the value the LLM gave, wrongly
\* shaped values included.
C9_CompleteObjectVerbatim ==
    (/\ LLMObjectParsed
     /\ RequiredKeys \subseteq DOMAIN json_loads(Cleaned)) =>
        /\ resp.body = json_loads(Cleaned)
        /\ resp.body #
              create_fallback_response(get_profile(resp.user_id), resp.message)
        /\ resp.llm.text \in {TextGood, <<FenceJson, WS>> \o TextGood \o <<WS, Fence>>} =>
              resp.body =
                  [response |-> Str("r"), advice |-> Str("a"),
                   workout_plan |-> List(<<"x">>), nutrition_tips |-> Str("n"),
                   macros |-> Obj([protein |-> 100, carbs |-> 200, fats |-> 300])]
        /\ resp.llm.text = TextWrongShape =>
              /\ resp.body.workout_plan = Str("no list")
              /\ resp.body.macros = Num(0)

\* C9 witness: the LLM object is key-complete with a workout_plan that is
\* no list and macros that are no object, and chat returned it.
C9_Witness ==
    /\ LLMObjectParsed
    /\ resp.llm.text = TextWrongShape
    /\ resp.body.workout_plan = Str("no list")

\* the stored users whose email and password are those of the login request
Matching ==
    {i \in 1..Len(users) :
        users[i].email = resp.email /\ users[i].password = resp.password}

\* what C10 says of the response of a login request
LoginAnswer ==
    resp.op = "login" =>
        /\ (resp.store_ok /\ Matching # {}) =>
              /\ resp.status = 200
              /\ DOMAIN resp.body = {"user_id", "access_token", "message"}
              /\ \E i \in Matching : users[i].id = resp.body.user_id
        /\ ~(resp.store_ok /\ Matching # {}) =>
              /\ resp.status = 401
              /\ DOMAIN resp.body = {"detail"}
        /\ resp.status = 200 =>
              \A i \in 1..Len(users) :
                  users[i].id = resp.body.user_id => i \in Matching

\* C10: after any sequence of signups, login(email, password) answers 200
\* with user_id, access_token and message, the id being that of a stored
\* user with that email and that password, when the store answers and such
\* a user exists; it answers 401 with a detail otherwise; the id returned
\* is never that of a user whose email or password differs; and a login
\* leaves the stored users as they were.
C10_Login ==
    /\ []LoginAnswer
    /\ [][resp'.op = "login" => users' = users]_vars

\* C10 witness: two users with the same password and different emails are
\* stored, and the login with the email of the second returned its id.
C10_Witness ==
    /\ resp.op = "login"
    /\ resp.status = 200
    /\ Len(users) = 2
    /\ users[1].email # users[2].email
    /\ users[1].password = users[2].password
    /\ resp.body.user_id = users[2].id

\* the six fields of a profile that a client sends
ProfileFields ==
    {"age", "height_cm", "weight_kg", "sex", "activity_level", "goal"}

\* what C11 says of the response of GET /profile/{u}, the store answering
ProfileAnswer ==
    (resp.op = "profile" /\ resp.store_ok) =>
        /\ resp.status = 200
        /\ lastCreated[resp.user_id] = None => DOMAIN resp.body = {}
        /\ lastCreated[resp.user_id] # None =>
              /\ ProfileFields \subseteq DOMAIN resp.body
              /\ \A f \in ProfileFields :
                    resp.body[f] = lastCreated[resp.user_id][f]
              /\ resp.body.user_id = resp.user_id

\* the rows of table profiles that belong to user u
ProfileRowsOf(table, u) == {r \in table : r.user_id = u}

\* C11: after any sequence of profile/create calls, GET /profile/{u}, the
\* store answering, returns the empty object when no profile/create for u
\* was accepted, and otherwise a profile whose age, height_cm, weight_kg,
\* sex, activity_level and goal are those of the last accepted
\* profile/create for u; and a profile/create for u leaves the profile of
\* every other user as it was.
C11_ProfileUpsert ==
    /\ []ProfileAnswer
    /\ [][\A u \in UserIds :
            (resp'.op = "profile/create" /\ resp'.user_id # u) =>
                ProfileRowsOf(profiles', u) = ProfileRowsOf(profiles, u)]_vars

\* C11 witness: GET /profile returned the profile of a user while another
\* user has a profile whose six fields all differ.
C11_Witness ==
    /\ resp.op = "profile"
    /\ resp.store_ok
    /\ resp.status = 200
    /\ lastCreated[resp.user_id] # None
    /\ resp.body.weight_kg = lastCreated[resp.user_id].weight_kg
    /\ \E u \in UserIds :
          /\ u # resp.user_id
          /\ lastCreated[u] # None
          /\ \A f \in ProfileFields : lastCreated[u][f] # resp.body[f]

\* how many times row x occurs in the sequence of rows
Count(rows, x) == Cardinality({i \in 1..Len(rows) : rows[i] = x})

\* what C12 says of the response of GET /progress/{u}, the store answering:
\* the rows of u, each as often as it is stored, by ascending date
ProgressAnswer ==
    (resp.op = "progress" /\ resp.store_ok) =>
        /\ resp.status = 200
        /\ \A i \in 1..Len(resp.body) : resp.body[i].user_id = resp.user_id
        /\ \A i \in 1..Len(resp.body) :
              Count(resp.body, resp.body[i]) = Count(progress, resp.body[i])
        /\ \A i \in 1..Len(progress) :
              progress[i].user_id = resp.user_id =>
                  Count(resp.body, progress[i]) = Count(progress, progress[i])
        /\ \A i, j \in 1..Len(resp.body) :
              i < j => resp.body[i].date <= resp.body[j].date

\* a step changes table progress only by appending the row of an accepted
\* progress/add, and every accepted progress/add appends its row
ProgressAppendOnly ==
    /\ progress' # progress =>
          /\ resp'.op = "progress/add"
          /\ resp'.status = 200
          /\ progress' = Append(progress, resp'.row)
    /\ (resp'.op = "progress/add" /\ resp'.status = 200) =>
          /\ Len(progress') = Len(progress) + 1
          /\ progress'[Len(progress')] = resp'.row

\* C12: table progress only grows, by the row of each accepted
\* progress/add, and GET /progress/{u}, the store answering, returns exactly
\* the rows added for u, none of another user, none changed or dropped,
\* by ascending date whatever the order of insertion.
C12_ProgressAppendOnlySorted ==
    /\ []ProgressAnswer
    /\ [][ProgressAppendOnly]_vars

\* C12 witness: two rows of a user were inserted with the later date first,
\* and GET /progress returned them with the earlier date first.
C12_Witness ==
    /\ resp.op = "progress"
    /\ resp.store_ok
    /\ Len(progress) = 2
    /\ progress[1].user_id = resp.user_id
    /\ progress[2].user_id = resp.user_id
    /\ progress[1].date > progress[2].date
    /\ Len(resp.body) = 2
    /\ resp.body[1] = progress[2]
    /\ resp.body[2] = progress[1]

\* the seven endpoints that pass a request through to the store
CrudOps ==
    {"signup", "login", "profile/create", "profile", "macros", "progress/add",
     "progress"}

\* C13 (as claimed): when the store call of a CRUD endpoint raises or
\* reports an error, the endpoint answers with an HTTP error status and a
\* body that is a detail, never a success body, having called the store at
\* most once.
C13_StoreFailureIsHttpError ==
    (resp.op \in CrudOps /\ resp.store \in {"raise", "error"}) =>
        /\ resp.status >= 400
        /\ DOMAIN resp.body = {"detail"}
        /\ resp.store_calls <= 1

\* the LLM call of the chat request gave nothing the validator accepts as
\* an object: it raised, it returned no text or only whitespace, the text
\* without fences does not begin with a brace, or the text does not parse
LLMGaveNoObject ==
    /\ ChatWithProfile
    /\ \/ resp.llm.kind \in {"raise", "no_text"}
       \/ /\ resp.llm.kind = "text"
          /\ \/ strip(resp.llm.text) = <<>>
             \/ ~startswith_brace(Cleaned)
             \/ ~is_json_object(Cleaned)

\* C14: in a chat request that loaded a profile, when the LLM call raises,
\* returns no or only blank text, returns text that without its fences does
\* not begin with a brace, or text that does not parse, chat returns what
\* create_fallback_response gives for that profile and the message: the
\* macros are those of the profile's weight, not those of the default 70 kg,
\* and the payload is not the profile-incomplete one.
C14_FallbackUsesLoadedProfile ==
    LLMGaveNoObject =>
        LET profile == get_profile(resp.user_id)
        IN  /\ resp.load.profile = profile
            /\ resp.body = create_fallback_response(profile, resp.message)
            /\ resp.body.macros = Obj(calculate_macros(profile.weight_kg))
            /\ profile.weight_kg # 7000 =>
                  resp.body.macros # Obj(calculate_macros(7000))
            /\ resp.body # ProfileIncomplete
            /\ resp.body.macros # Obj([protein |-> 0, carbs |-> 0, fats |-> 0])

\* C14 witness: the LLM answered a user who has a profile in prose that
\* does not begin with a brace.
C14_Witness ==
    /\ ChatWithProfile
    /\ resp.llm.kind = "text"
    /\ Cleaned # <<>>
    /\ ~startswith_brace(Cleaned)
    /\ get_profile(resp.user_id).weight_kg # 7000


\* no statement occurs twice in the trail s
NoRepeat(s) == \A i, j \in 1..Len(s) : i # j => s[i] # s[j]

\* the profile load of request q failed or found no row
NoProfileLoaded(q) ==
    \/ q.load.kind = "raise"
    \/ q.load.kind = "ok" /\ q.load.profile = None

\* what C15 says of the locals q of one request
SinglePass(q) ==
    /\ q.llm_calls <= 1
    /\ q.prompts = q.llm_calls
    /\ NoRepeat(q.trail)
    /\ NoProfileLoaded(q) =>
          /\ q.llm_calls = 0
          /\ q.prompts = 0
          /\ q.llm = NoCall
          /\ q.pc = "returned"
    /\ (q.pc = "returned") <=> (q.outcome # "none")
    /\ q.pc = "returned" =>
          /\ q.outcome \in {"incomplete", "done", "fallback"}
          /\ (q.outcome = "incomplete") <=>
                (q.load.kind = "ok" /\ q.load.profile = None)
          /\ q.outcome = "incomplete" => q.body = ProfileIncomplete
          /\ q.outcome = "done" =>
                /\ q.llm_calls = 1
                /\ q.body = json_loads(clean(q.llm.text))
          /\ q.outcome = "fallback" =>
                q.body = create_fallback_response(
                             IF q.load.kind = "raise" THEN None
                             ELSE q.load.profile, q.message)

\* a request only moves forward: its trail grows, and once it has returned
\* its locals stay as they are until the slot serves a new request
MovesForward ==
    \A r \in RequestIds :
        \/ requests'[r] = requests[r]
        \/ requests'[r].trail = <<"load">>
        \/ /\ requests[r].pc # "returned"
           /\ Len(requests'[r].trail) = Len(requests[r].trail) + 1
           /\ SubSeq(requests'[r].trail, 1, Len(requests[r].trail))
                 = requests[r].trail

\* C15: every chat request, whatever is served beside it, is one pass that
\* ends in exactly one of the outcomes profile-incomplete, done (the LLM
\* object) and fallback: the LLM is called at most once, no prompt is built
\* and the LLM is not called when the profile load raised or found no
\* profile, and no statement is reached a second time.
C15_SinglePass ==
    /\ [](\A r \in RequestIds : SinglePass(requests[r]))
    /\ [][MovesForward]_vars

\* C15 witness: one request returned the fallback after its one LLM call
\* raised while the other returned the LLM object, and a third outcome,
\* profile-incomplete, is what the first slot served before.
C15_Witness ==
    /\ requests[1].outcome = "fallback"
    /\ requests[1].llm = [kind |-> "raise"]
    /\ requests[1].llm_calls = 1
    /\ requests[1].trail = <<"load", "call", "returned">>
    /\ requests[2].outcome = "done"
    /\ requests[2].trail = <<"load", "call", "validate", "returned">>

\* C16: no step of a chat request changes the stored users, profiles or
\* progress entries, however the requests are interleaved with each other
\* and with the saving of profiles, and what a request returns is what chat
\* computes from the profile it loaded, its message and its LLM outcome,
\* whatever the store holds by then.
C16_ChatWritesNothing ==
    /\ [][requests' # requests =>
              /\ users' = users
              /\ profiles' = profiles
              /\ progress' = progress]_vars
    /\ [](\A r \in RequestIds :
              requests[r].pc = "returned" =>
                  requests[r].body = chat_body(requests[r].load,
                                               requests[r].message,
                                               requests[r].llm))

\* C16 witness: request 1 returned the fallback for the profile it loaded
\* although the profile of its user was replaced meanwhile, while request 2
\* waits for the LLM.
C16_Witness ==
    /\ requests[1].pc = "returned"
    /\ requests[1].outcome = "fallback"
    /\ requests[1].load.kind = "ok"
    /\ get_profile(requests[1].user_id) # None
    /\ requests[1].load.profile # get_profile(requests[1].user_id)
    /\ requests[1].body.macros = Obj(calculate_macros(requests[1].load.profile.weight_kg))
    /\ requests[2].pc = "call"


\* C17: when the profile load of a chat request raises, chat answers with
\* status 200 and what create_fallback_response gives without profile for
\* the message, with the macros of 70 kg, 140.0, 210.0 and 70.0, and not
\* with the profile-incomplete payload or its macros 0, 0, 0, also when the
\* user has a stored profile with another weight.
C17_LoadRaisesFallbackNoProfile ==
    (IsChat /\ resp.store = "raise") =>
        /\ resp.status = 200
        /\ resp.load = [kind |-> "raise"]
        /\ resp.body = create_fallback_response(None, resp.message)
        /\ resp.body.macros =
              Obj([protein |-> 14000, carbs |-> 21000, fats |-> 7000])
        /\ resp.body # ProfileIncomplete
        /\ resp.body.macros # Obj([protein |-> 0, carbs |-> 0, fats |-> 0])
        /\ (/\ get_profile(resp.user_id) # None
            /\ get_profile(resp.user_id).weight_kg # 7000) =>
                  resp.body.macros #
                     Obj(calculate_macros(get_profile(resp.user_id).weight_kg))

\* C17 witness: the load raised for a user whose stored profile says 80.25 kg.
C17_Witness ==
    /\ IsChat
    /\ resp.store = "raise"
    /\ get_profile(resp.user_id) # None
    /\ get_profile(resp.user_id).weight_kg = 8025
    /\ resp.body.macros = Obj([protein |-> 14000, carbs |-> 21000, fats |-> 7000])


\* the requests the UI makes in the name of a user
UserRequests == {"profile/create", "chat", "macros", "progress/add", "progress"}

\* what C18 says of every state of the UI client: a request made in the
\* name of a user is the one the API served last, a user is set, and the
\* request carries that user's id; after a logout no user is set
SessionGuards ==
    /\ Cardinality(session) <= 1
    /\ ui_event.sent \in UserRequests =>
          /\ resp.op = ui_event.sent
          /\ session # {}
          /\ resp.user_id \in session
    /\ ui_event.sent = "logout" => session = {}

\* what C18 says of every run of the script: the session's user changes
\* only to the id a login answered with status 200 brought, or to none by a
\* logout; a login answered otherwise leaves it; a request in the name of a
\* user is made only while a user is set, for that user, and leaves the
\* user set; while no user is set a run of a user page sends nothing and
\* the API sees no request
SessionSteps ==
    /\ session' # session =>
          \/ /\ ui_event'.sent = "login"
             /\ resp'.op = "login"
             /\ resp'.status = 200
             /\ session' = {resp'.body.user_id}
          \/ /\ ui_event'.sent = "logout"
             /\ session # {}
             /\ session' = {}
    /\ ui_event'.sent = "login" =>
          session' = IF resp'.status = 200 THEN {resp'.body.user_id}
                     ELSE session
    /\ ui_event'.sent \in UserRequests =>
          /\ session # {}
          /\ resp'.user_id \in session
          /\ session' = session
    /\ (session = {} /\ ui_event'.page \in UserPages) =>
          /\ ui_event'.sent = "nothing"
          /\ session' = {}
          /\ resp' = resp
          /\ users' = users
          /\ profiles' = profiles
          /\ progress' = progress

\* C18: in the UI client the session's user is set only by a login request
\* answered with status 200, to the user_id of the answer, and removed by
\* logout; profile/create, chat, macros and progress requests are sent only
\* while a user is set and carry that user's id; and from a logout to the
\* next login answered with 200 the Profile, Chat and Progress pages send
\* no request.
C18_SessionGuardsRequests ==
    /\ []SessionGuards
    /\ [][SessionSteps]_vars

\* C18 witness: user 2 logged in after user 1 had saved progress, fetched
\* the history, which was the last request the API served, and logged out;
\* the Progress page was asked for then and sent nothing.
C18_Witness ==
    /\ session = {}
    /\ ui_event = [page |-> "Progress", sent |-> "nothing"]
    /\ resp.op = "progress"
    /\ resp.user_id = 2
    /\ \E i \in 1..Len(progress) : progress[i].user_id = 1
====
